---- MODULE Spec2Model ----
(***************************************************************************)
(* A model of the langgraph_research workflow (module-4/studio):            *)
(*   - the research graph and its interview sub-graph (graphs/, nodes/),    *)
(*   - the routers route_messages and initiate_all_interviews,              *)
(*   - the reduce step finalize_report,                                     *)
(*   - the error envelope (utils/error_handler.py).                         *)
(*                                                                         *)
(* Python values are represented as follows.                                *)
(*   str    a tuple of one-character strings ("ab" is <<"a","b">>), so that *)
(*          startswith, strip, split, lower and `in` are computed           *)
(*   None   the tuple <<"None">>; no str is equal to it, because every      *)
(*          element of a str is a single character                          *)
(*   dict   a function whose DOMAIN is the set of keys that are present     *)
(*   list   a sequence                                                      *)
(*   raise  an operator that models a function returns [raise |-> name]     *)
(*          where the function raises the exception `name`                  *)
(***************************************************************************)
EXTENDS Integers, Sequences, FiniteSets, TLC

VARIABLES
    state,      \* research graph: the running ResearchGraphState
    pc,         \* research graph: the step the run is at
    branches,   \* the interview branches, in spawn order
    finished,   \* the branches that returned, in the order they did
    writers,    \* the writer nodes that returned, with their deltas
    trace,      \* what the run has done so far: counts, and the exception
    env,        \* what the retrieval providers hold on the topic
    rp,         \* finalize_report: the state it is applied to, and its result
    rt,         \* route_messages: the state it is applied to, and its result
    es,         \* error envelope: the running state the helpers are applied to
    heap,       \* the ErrorInfo dicts created so far; a state refers to them
    now,        \* the clock time.time() reads
    elog        \* error envelope: the calls made so far, with what they returned

vars == <<state, pc, branches, finished, writers, trace, env, rp, rt, es, heap, now, elog>>

graphVars == <<state, pc, branches, finished, writers, trace, env>>

None == <<"None">>

Raised(r) == "raise" \in DOMAIN r

EmptyDict == [k \in {} |-> None]

\* the research graph when no run is modelled
GraphIdle ==
    /\ state = EmptyDict
    /\ pc = "idle"
    /\ branches = <<>>
    /\ finished = <<>>
    /\ writers = EmptyDict
    /\ trace = EmptyDict
    /\ env = EmptyDict

---------------------------------------------------------------------------
(* str operations *)

StartsWith(s, prefix) ==
    Len(prefix) <= Len(s) /\ SubSeq(s, 1, Len(prefix)) = prefix

Chars(s) == {s[i] : i \in 1..Len(s)}

RECURSIVE LStrip(_, _)
LStrip(s, chars) ==
    IF s # <<>> /\ Head(s) \in chars THEN LStrip(Tail(s), chars) ELSE s

RECURSIVE RStrip(_, _)
RStrip(s, chars) ==
    IF s # <<>> /\ s[Len(s)] \in chars
    THEN RStrip(SubSeq(s, 1, Len(s) - 1), chars)
    ELSE s

\* str.strip(chars): every leading and every trailing character that is a
\* member of `chars` is removed
Strip(s, chars) == RStrip(LStrip(s, Chars(chars)), Chars(chars))

\* the places where `sub` occurs in s
Occurrences(s, sub) ==
    {i \in 1..(Len(s) - Len(sub) + 1) : SubSeq(s, i, i + Len(sub) - 1) = sub}

\* `sub in s`
Contains(s, sub) == Occurrences(s, sub) # {}

Min(S) == CHOOSE i \in S : \A j \in S : i <= j

\* str.split(sep): the parts between the occurrences of sep, found from the
\* left without overlap
RECURSIVE Split(_, _)
Split(s, sep) ==
    IF ~Contains(s, sep)
    THEN <<s>>
    ELSE LET i == Min(Occurrences(s, sep))
         IN  <<SubSeq(s, 1, i - 1)>> \o Split(SubSeq(s, i + Len(sep), Len(s)), sep)

RECURSIVE Concat(_)
Concat(parts) == IF parts = <<>> THEN <<>> ELSE Head(parts) \o Concat(Tail(parts))

\* a dict updated with a delta whose keys all overwrite
Update(d, delta) ==
    [k \in DOMAIN d \cup DOMAIN delta |-> IF k \in DOMAIN delta THEN delta[k] ELSE d[k]]

---------------------------------------------------------------------------
(* nodes/interview_nodes.py: route_messages *)

EXPERT == <<"e","x","p","e","r","t">>
THANKS ==
    <<"T","h","a","n","k"," ","y","o","u"," ","s","o"," ","m","u","c","h"," ",
      "f","o","r"," ","y","o","u","r"," ","h","e","l","p">>

\* the value state.get('max_num_turns', 2) falls back to
DefaultMaxNumTurns == 2

\* a message: type is "ai" for an AIMessage and "human" for a HumanMessage,
\* name is None or a str, content is a str
Message(type, name, content) == [type |-> type, name |-> name, content |-> content]

\* lines 104-106
NumResponses(messages, name) ==
    Cardinality({i \in 1..Len(messages) :
                    messages[i].type = "ai" /\ messages[i].name = name})

\* a variant that looks at the last message, not at the one before it
RouteMessagesLast(st, name) ==
    LET messages == st.messages
        max_num_turns ==
            IF "max_num_turns" \in DOMAIN st THEN st.max_num_turns ELSE DefaultMaxNumTurns
    IN  IF NumResponses(messages, name) >= max_num_turns
        THEN [goto |-> "save_interview"]
        ELSE IF Len(messages) < 1
        THEN [raise |-> "IndexError"]
        ELSE IF Contains(messages[Len(messages)].content, THANKS)
        THEN [goto |-> "save_interview"]
        ELSE [goto |-> "ask_question"]

\* a variant that ends the interview only above the turn limit
RouteMessagesOneMore(st, name) ==
    LET messages == st.messages
        max_num_turns ==
            IF "max_num_turns" \in DOMAIN st THEN st.max_num_turns ELSE DefaultMaxNumTurns
    IN  IF NumResponses(messages, name) > max_num_turns
        THEN [goto |-> "save_interview"]
        ELSE IF Len(messages) < 2
        THEN [raise |-> "IndexError"]
        ELSE IF Contains(messages[Len(messages) - 1].content, THANKS)
        THEN [goto |-> "save_interview"]
        ELSE [goto |-> "ask_question"]

\* route_messages(state, name): the node it routes to, or the exception it
\* raises; messages[-2] raises IndexError on fewer than two messages
RouteMessages(st, name) ==
    IF "messages" \notin DOMAIN st
    THEN [raise |-> "KeyError"]
    ELSE LET messages == st.messages
             max_num_turns ==
                 IF "max_num_turns" \in DOMAIN st
                 THEN st.max_num_turns
                 ELSE DefaultMaxNumTurns
         IN  IF NumResponses(messages, name) >= max_num_turns
             THEN [goto |-> "save_interview"]
             ELSE IF Len(messages) < 2
             THEN [raise |-> "IndexError"]
             ELSE IF Contains(messages[Len(messages) - 1].content, THANKS)
             THEN [goto |-> "save_interview"]
             ELSE [goto |-> "ask_question"]

---------------------------------------------------------------------------
(* The merge of a node's delta into the running state.  The state schemas   *)
(* (models/schemas.py) declare the policy of each key: a key of AppendKeys  *)
(* is a list that a delta extends, every other key is overwritten.          *)

AppendKeys == {"sections", "messages", "context", "error_history"}

Merge(st, delta) ==
    [k \in DOMAIN st \cup DOMAIN delta |->
        IF k \notin DOMAIN delta THEN st[k]
        ELSE IF k \in AppendKeys /\ k \in DOMAIN st THEN st[k] \o delta[k]
        ELSE delta[k]]

---------------------------------------------------------------------------
(* utils/error_handler.py.  An ErrorInfo is a dict that lives in `heap`;    *)
(* the value under "error" and each entry of "error_history" is a reference *)
(* to one, so that two places holding the same dict see each other's        *)
(* assignments.  Each operator gets the state, the heap and the clock and   *)
(* returns the delta the function returns and the heap it leaves.           *)

Ref(i) == <<"ref", i>>
Deref(h, ref) == h[ref[2]]

SevWarning == <<"w","a","r","n","i","n","g">>
SevError == <<"e","r","r","o","r">>
SevCritical == <<"c","r","i","t","i","c","a","l">>
TxtTraceback == <<"T","r","a","c","e","b","a","c","k">>
TxtDetails == <<"r","e","t","r","i","e","d">>

\* bool(v) of a value that is None, a str or a reference to a dict
Truthy(v) == v # None /\ v # <<>>

\* an error handed to record_error: an Exception (of class `type`) or a str
ExceptionValue(type, message) == [kind |-> "exception", type |-> type, message |-> message]
StrError(message) == [kind |-> "str", message |-> message]

\* a variant that does not return the history
RecordErrorNoHistory(st, h, t, error, node_name, severity, context, add_to_history) ==
    LET error_info ==
            [error_type |-> IF error.kind = "exception" THEN error.type ELSE "CustomError",
             message |-> error.message, node |-> node_name, timestamp |-> t,
             severity |-> severity, recovery_attempted |-> FALSE,
             context |-> [state_keys |-> DOMAIN st]]
    IN  [delta |-> [error |-> Ref(Len(h) + 1)], heap |-> Append(h, error_info)]

\* record_error, lines 35-78.  list(state.keys()) is kept as the set of keys.
RecordError(st, h, t, error, node_name, severity, context, add_to_history) ==
    LET stack_trace == IF error.kind = "exception" THEN TxtTraceback ELSE None
        base ==
            [error_type |-> IF error.kind = "exception" THEN error.type ELSE "CustomError",
             message |-> error.message,
             node |-> node_name,
             timestamp |-> t,
             severity |-> severity,
             recovery_attempted |-> FALSE,
             context |-> IF context = None THEN [state_keys |-> DOMAIN st] ELSE context]
        error_info ==
            IF Truthy(stack_trace) THEN Update(base, [stack_trace |-> stack_trace]) ELSE base
        ref == Ref(Len(h) + 1)
        result == [error |-> ref]
        error_history ==
            IF "error_history" \in DOMAIN st THEN st.error_history ELSE <<>>
    IN  [delta |-> IF add_to_history
                   THEN Update(result, [error_history |-> error_history \o <<ref>>])
                   ELSE result,
         heap |-> Append(h, error_info)]

\* clear_error, lines 91-103.  list.copy() copies the list, not the dicts in
\* it: the assignments go to the dict the state's last entry refers to.
ClearError(st, h, t, mark_recovered) ==
    IF mark_recovered /\ "error_history" \in DOMAIN st /\ st.error_history # <<>>
    THEN LET error_history == st.error_history
             last == error_history[Len(error_history)][2]
         IN  [delta |-> [error_history |-> error_history],
              heap |-> [h EXCEPT ![last] =
                          Update(@, [recovery_attempted |-> TRUE,
                                     recovered |-> TRUE,
                                     recovery_timestamp |-> t])]]
    ELSE [delta |-> EmptyDict, heap |-> h]

\* a variant that looks for the key only
IsErrorStateKeyOnly(st) == "error" \in DOMAIN st

\* is_error_state, line 115
IsErrorState(st) == "error" \in DOMAIN st /\ st.error # None

\* get_error_severity, lines 127-130
GetErrorSeverity(st, h) ==
    IF ~IsErrorState(st)
    THEN None
    ELSE LET error == Deref(h, st.error)
         IN  IF "severity" \in DOMAIN error THEN error.severity ELSE SevError

\* a variant that clears the error whether the recovery succeeded or not
RecordRecoveryAlwaysClears(st, h, t, recovery_method, success, details) ==
    LET has_history == "error_history" \in DOMAIN st /\ st.error_history # <<>>
        last == st.error_history[Len(st.error_history)][2]
    IN  [delta |-> IF has_history
                   THEN [error |-> None, error_history |-> st.error_history]
                   ELSE [error |-> None],
         heap |-> IF has_history
                  THEN [h EXCEPT ![last] =
                           Update(@, [recovery_attempted |-> TRUE, recovered |-> success])]
                  ELSE h]

\* record_recovery, lines 150-181
RecordRecovery(st, h, t, recovery_method, success, details) ==
    LET base == [timestamp |-> t, method |-> recovery_method,
                 success |-> success, details |-> details]
        recovery_info ==
            IF "error" \in DOMAIN st /\ Truthy(st.error)
            THEN Update(base, [error_type |-> Deref(h, st.error).error_type,
                               error_node |-> Deref(h, st.error).node])
            ELSE base
        has_history == "error_history" \in DOMAIN st /\ st.error_history # <<>>
        error_history == st.error_history
        last == error_history[Len(error_history)][2]
        marked ==
            Update(h[last], [recovery_attempted |-> TRUE,
                             recovered |-> success,
                             recovery_method |-> recovery_method,
                             recovery_timestamp |-> t])
        result0 == [recovery_info |-> recovery_info]
        result1 ==
            IF has_history
            THEN Update(result0, [error_history |-> error_history])
            ELSE result0
    IN  [delta |-> IF success THEN Update(result1, [error |-> None]) ELSE result1,
         heap |-> IF has_history
                  THEN [h EXCEPT ![last] =
                           IF Truthy(details)
                           THEN Update(marked, [recovery_details |-> details])
                           ELSE marked]
                  ELSE h]

---------------------------------------------------------------------------
(* the error envelope applied to a running state: each action is one call   *)
(* whose delta the engine merges into the state                             *)

\* the greatest number of calls in a run of the error envelope
MaxCalls == 3

ErrorValues == {ExceptionValue("ValueError", "bad"), StrError("bad")}

ErrorIdle == es = EmptyDict /\ heap = <<>> /\ now = 1 /\ elog = <<>>

ErrorInit ==
    /\ GraphIdle
    /\ rp = [phase |-> "idle"]
    /\ rt = [phase |-> "idle"]
    /\ es = [topic |-> "AI"]
    /\ heap = <<>>
    /\ now = 1
    /\ elog = <<>>

Called(call, r) ==
    /\ Len(elog) < MaxCalls
    /\ heap' = r.heap
    /\ es' = Merge(es, r.delta)
    /\ now' = now + 1
    /\ elog' = Append(elog, Update(call, [delta |-> r.delta]))
    /\ UNCHANGED <<graphVars, rp, rt>>

record_error_call ==
    \E error \in ErrorValues, severity \in {SevError, SevCritical},
       add_to_history \in BOOLEAN :
        Called([op |-> "record_error", add_to_history |-> add_to_history],
               RecordError(es, heap, now, error, "create_analysts", severity,
                           None, add_to_history))

clear_error_call ==
    \E mark_recovered \in BOOLEAN :
        Called([op |-> "clear_error", mark_recovered |-> mark_recovered],
               ClearError(es, heap, now, mark_recovered))

record_recovery_call ==
    \E success \in BOOLEAN, details \in {None, TxtDetails} :
        Called([op |-> "record_recovery", success |-> success],
               RecordRecovery(es, heap, now, "retry", success, details))

\* the two inspections return a value and no delta
is_error_state_call ==
    /\ Len(elog) < MaxCalls
    /\ elog' = Append(elog, [op |-> "is_error_state", result |-> IsErrorState(es)])
    /\ UNCHANGED <<graphVars, rp, rt, es, heap, now>>

get_error_severity_call ==
    /\ Len(elog) < MaxCalls
    /\ elog' = Append(elog, [op |-> "get_error_severity",
                             result |-> GetErrorSeverity(es, heap)])
    /\ UNCHANGED <<graphVars, rp, rt, es, heap, now>>

ErrorNext ==
    \/ record_error_call
    \/ clear_error_call
    \/ record_recovery_call
    \/ is_error_state_call
    \/ get_error_severity_call

SpecError == ErrorInit /\ [][ErrorNext]_vars

---------------------------------------------------------------------------
(* The collaborators.  A call of the language model or of a retrieval       *)
(* provider either returns a value or raises; the callers get the outcome   *)
(* as a parameter: [ok |-> TRUE, ...] or [ok |-> FALSE].                    *)

Failed == [ok |-> FALSE]
Returned(fields) == Update([ok |-> TRUE], fields)

\* str.join
RECURSIVE Join(_, _)
Join(sep, parts) ==
    IF parts = <<>> THEN <<>>
    ELSE IF Len(parts) = 1 THEN parts[1]
    ELSE parts[1] \o sep \o Join(sep, Tail(parts))

\* str.lower on the ASCII letters
UpperCase == <<"A","B","C","D","E","F","G","H","I","J","K","L","M",
               "N","O","P","Q","R","S","T","U","V","W","X","Y","Z">>
LowerCase == <<"a","b","c","d","e","f","g","h","i","j","k","l","m",
               "n","o","p","q","r","s","t","u","v","w","x","y","z">>

LowerChar(c) ==
    IF \E i \in 1..Len(UpperCase) : UpperCase[i] = c
    THEN LowerCase[CHOOSE i \in 1..Len(UpperCase) : UpperCase[i] = c]
    ELSE c

Lower(s) == [i \in 1..Len(s) |-> LowerChar(s[i])]

---------------------------------------------------------------------------
(* nodes/interview_nodes.py: the nodes of the interview graph.  Each        *)
(* operator gets the state the node reads and returns the delta the node    *)
(* returns, or the exception that leaves it.                                *)

\* generate_question, lines 12-20
GenerateQuestion(st, llm) ==
    IF ~({"analyst", "messages"} \subseteq DOMAIN st) THEN [raise |-> "KeyError"]
    ELSE IF ~llm.ok THEN [raise |-> "ModelError"]
    ELSE [messages |-> <<Message("ai", None, llm.content)>>]

DOC_RULE == <<"\n","\n","-","-","-","\n","\n">>

\* lines 36-41: a web document is a dict with "url" and "content"
FormatWebDocs(search_docs) ==
    Join(DOC_RULE,
         [i \in 1..Len(search_docs) |->
             <<"<","D","o","c","u","m","e","n","t"," ","h","r","e","f","=","\"">>
             \o search_docs[i].url \o <<"\"","/",">","\n">>
             \o search_docs[i].content
             \o <<"\n","<","/","D","o","c","u","m","e","n","t",">">>])

\* lines 57-62: an encyclopedia document has metadata "source", maybe "page",
\* and page_content; metadata.get("page", "") is "" without a page
FormatWikiDocs(search_docs) ==
    Join(DOC_RULE,
         [i \in 1..Len(search_docs) |->
             <<"<","D","o","c","u","m","e","n","t"," ","s","o","u","r","c","e","=","\"">>
             \o search_docs[i].source \o <<"\""," ","p","a","g","e","=","\"">>
             \o (IF "page" \in DOMAIN search_docs[i] THEN search_docs[i].page ELSE <<>>)
             \o <<"\"","/",">","\n">>
             \o search_docs[i].page_content
             \o <<"\n","<","/","D","o","c","u","m","e","n","t",">">>])

\* a variant of search_web that returns no context entry for no documents
SearchWebSkipsEmpty(st, llm, search) ==
    IF "messages" \notin DOMAIN st THEN [raise |-> "KeyError"]
    ELSE IF ~llm.ok THEN [raise |-> "ModelError"]
    ELSE IF ~search.ok THEN [raise |-> "RetrievalError"]
    ELSE IF search.docs = <<>> THEN [context |-> <<>>]
    ELSE [context |-> <<FormatWebDocs(search.docs)>>]

\* search_web, lines 26-43: llm is the structured call that makes the query,
\* search the retrieval call
SearchWeb(st, llm, search) ==
    IF "messages" \notin DOMAIN st THEN [raise |-> "KeyError"]
    ELSE IF ~llm.ok THEN [raise |-> "ModelError"]
    ELSE IF ~search.ok THEN [raise |-> "RetrievalError"]
    ELSE [context |-> <<FormatWebDocs(search.docs)>>]

\* search_wikipedia, lines 48-64
SearchWikipedia(st, llm, search) ==
    IF "messages" \notin DOMAIN st THEN [raise |-> "KeyError"]
    ELSE IF ~llm.ok THEN [raise |-> "ModelError"]
    ELSE IF ~search.ok THEN [raise |-> "RetrievalError"]
    ELSE [context |-> <<FormatWikiDocs(search.docs)>>]

\* generate_answer, lines 70-82
GenerateAnswer(st, llm) ==
    IF ~({"analyst", "messages", "context"} \subseteq DOMAIN st)
    THEN [raise |-> "KeyError"]
    ELSE IF ~llm.ok THEN [raise |-> "ModelError"]
    ELSE [messages |-> <<Message("ai", EXPERT, llm.content)>>]

\* langchain_core's get_buffer_string: one line per message, "Human: " or
\* "AI: " before its content
GetBufferString(messages) ==
    Join(<<"\n">>,
         [i \in 1..Len(messages) |->
             (IF messages[i].type = "human"
              THEN <<"H","u","m","a","n",":"," ">>
              ELSE <<"A","I",":"," ">>) \o messages[i].content])

\* save_interview, lines 88-94
SaveInterview(st) ==
    IF "messages" \notin DOMAIN st THEN [raise |-> "KeyError"]
    ELSE [interview |-> GetBufferString(st.messages)]

\* write_section, lines 124-136
WriteSection(st, llm) ==
    IF ~({"interview", "context", "analyst"} \subseteq DOMAIN st)
    THEN [raise |-> "KeyError"]
    ELSE IF ~llm.ok THEN [raise |-> "ModelError"]
    ELSE [sections |-> <<llm.content>>]

---------------------------------------------------------------------------
(* nodes/analyst_nodes.py *)

GOOD == <<"g","o","o","d">>

\* a variant that returns the new analysts after those of the state
CreateAnalystsExtends(st, h, t, llm) ==
    IF ~llm.ok
    THEN RecordError(st, h, t, ExceptionValue("ModelError", "bad"),
                     "create_analysts", SevError, None, TRUE)
    ELSE [delta |-> [analysts |-> (IF "analysts" \in DOMAIN st THEN st.analysts ELSE <<>>)
                                  \o llm.analysts],
          heap |-> h]

\* create_analysts, lines 9-40: every exception of the body is caught and
\* handed to record_error.  Returns the delta and the heap.
CreateAnalysts(st, h, t, llm) ==
    IF ~({"topic", "max_analysts"} \subseteq DOMAIN st)
    THEN RecordError(st, h, t, ExceptionValue("KeyError", "topic"),
                     "create_analysts", SevError, None, TRUE)
    ELSE IF ~llm.ok
    THEN RecordError(st, h, t, ExceptionValue("ModelError", "bad"),
                     "create_analysts", SevError, None, TRUE)
    ELSE [delta |-> [analysts |-> llm.analysts], heap |-> h]

\* human_feedback, lines 42-44: returns None, no delta
HumanFeedback(st) == EmptyDict

OpeningMessage(topic) ==
    Message("human", None,
            <<"S","o"," ","y","o","u"," ","s","a","i","d"," ","y","o","u"," ",
              "w","e","r","e"," ","w","r","i","t","i","n","g"," ","a","n"," ",
              "a","r","t","i","c","l","e"," ","o","n"," ">> \o topic \o <<"?">>)

\* a variant that starts the interviews without the opening message
InitiateAllInterviewsNoOpening(st) ==
    LET human_analyst_feedback ==
            IF "human_analyst_feedback" \in DOMAIN st
            THEN st.human_analyst_feedback
            ELSE <<"g","o","o","d">>
    IN  IF human_analyst_feedback = None THEN [raise |-> "AttributeError"]
        ELSE IF Lower(human_analyst_feedback) # <<"g","o","o","d">>
        THEN [goto |-> "create_analysts"]
        ELSE IF ~({"topic", "analysts"} \subseteq DOMAIN st) THEN [raise |-> "KeyError"]
        ELSE [sends |-> [i \in 1..Len(st.analysts) |->
                            [analyst |-> st.analysts[i], messages |-> <<>>]]]

\* a variant that compares the feedback as it is, without lower()
InitiateAllInterviewsCaseSensitive(st) ==
    LET human_analyst_feedback ==
            IF "human_analyst_feedback" \in DOMAIN st
            THEN st.human_analyst_feedback
            ELSE GOOD
    IN  IF human_analyst_feedback = None THEN [raise |-> "AttributeError"]
        ELSE IF human_analyst_feedback # GOOD THEN [goto |-> "create_analysts"]
        ELSE IF ~({"topic", "analysts"} \subseteq DOMAIN st) THEN [raise |-> "KeyError"]
        ELSE [sends |-> [i \in 1..Len(st.analysts) |->
                            [analyst |-> st.analysts[i],
                             messages |-> <<OpeningMessage(st.topic)>>]]]

\* initiate_all_interviews, lines 52-67: the node it routes to, or the
\* states of the Send directives, or the exception it raises (None has no
\* lower)
InitiateAllInterviews(st) ==
    LET human_analyst_feedback ==
            IF "human_analyst_feedback" \in DOMAIN st
            THEN st.human_analyst_feedback
            ELSE GOOD
    IN  IF human_analyst_feedback = None THEN [raise |-> "AttributeError"]
        ELSE IF Lower(human_analyst_feedback) # GOOD THEN [goto |-> "create_analysts"]
        ELSE IF ~({"topic", "analysts"} \subseteq DOMAIN st) THEN [raise |-> "KeyError"]
        ELSE [sends |-> [i \in 1..Len(st.analysts) |->
                            [analyst |-> st.analysts[i],
                             messages |-> <<OpeningMessage(st.topic)>>]]]

---------------------------------------------------------------------------
(* nodes/report_nodes.py: the three writers *)

SECTION_RULE == <<"\n","\n">>

\* lines 10-14, 28-32, 49-53: what a writer reads and gives to the model
FormattedSections(st) == Join(SECTION_RULE, st.sections)

\* write_report, lines 10-22
WriteReport(st, llm) ==
    IF ~({"sections", "topic"} \subseteq DOMAIN st) THEN [raise |-> "KeyError"]
    ELSE IF ~llm.ok THEN [raise |-> "ModelError"]
    ELSE [content |-> llm.content]

\* write_introduction, lines 28-43
WriteIntroduction(st, llm) ==
    IF ~({"sections", "topic"} \subseteq DOMAIN st) THEN [raise |-> "KeyError"]
    ELSE IF ~llm.ok THEN [raise |-> "ModelError"]
    ELSE [introduction |-> llm.content]

\* write_conclusion, lines 49-64
WriteConclusion(st, llm) ==
    IF ~({"sections", "topic"} \subseteq DOMAIN st) THEN [raise |-> "KeyError"]
    ELSE IF ~llm.ok THEN [raise |-> "ModelError"]
    ELSE [conclusion |-> llm.content]

---------------------------------------------------------------------------
(* nodes/report_nodes.py: finalize_report *)

INSIGHTS == <<"#","#"," ","I","n","s","i","g","h","t","s">>
SOURCES_MARK == <<"#","#"," ","S","o","u","r","c","e","s">>
SOURCES_DELIM == <<"\n","#","#"," ","S","o","u","r","c","e","s","\n">>
RULE == <<"\n","\n","-","-","-","\n","\n">>
SOURCES_HEAD == <<"\n","\n","#","#"," ","S","o","u","r","c","e","s","\n">>

\* a variant that removes the literal prefix only (str.removeprefix)
RemoveInsightsPrefix(content) ==
    IF StartsWith(content, INSIGHTS)
    THEN SubSeq(content, Len(INSIGHTS) + 1, Len(content))
    ELSE content

\* lines 72-73: the value of `content` after the marker step
StripInsights(content) ==
    IF StartsWith(content, INSIGHTS) THEN Strip(content, INSIGHTS) ELSE content

\* a variant without the try/except around the unpacking
SplitSourcesUnguarded(content) ==
    IF Contains(content, SOURCES_MARK)
    THEN LET parts == Split(content, SOURCES_DELIM)
         IN  IF Len(parts) = 2
             THEN [content |-> parts[1], sources |-> parts[2]]
             ELSE [raise |-> "ValueError"]
    ELSE [content |-> content, sources |-> None]

\* a variant that keeps the first and the last part whatever their number
SplitSourcesLoose(content) ==
    IF Contains(content, SOURCES_MARK)
    THEN LET parts == Split(content, SOURCES_DELIM)
         IN  IF Len(parts) >= 2
             THEN [content |-> parts[1], sources |-> parts[Len(parts)]]
             ELSE [content |-> content, sources |-> None]
    ELSE [content |-> content, sources |-> None]

\* lines 74-80: the values of `content` and `sources` after the split step.
\* The unpacking `content, sources = ...` raises ValueError before it assigns
\* anything unless split returns exactly two parts; the bare except then
\* sets sources alone.
SplitSources(content) ==
    IF Contains(content, SOURCES_MARK)
    THEN LET parts == Split(content, SOURCES_DELIM)
         IN  IF Len(parts) = 2
             THEN [content |-> parts[1], sources |-> parts[2]]
             ELSE [content |-> content, sources |-> None]
    ELSE [content |-> content, sources |-> None]

\* lines 82-84
AssembleReport(introduction, content, conclusion, sources) ==
    LET final_report == introduction \o RULE \o content \o RULE \o conclusion
    IN  IF sources # None
        THEN final_report \o SOURCES_HEAD \o sources
        ELSE final_report

\* finalize_report(state): the delta it returns, or the exception it raises
FinalizeReport(st) ==
    IF ~({"content", "introduction", "conclusion"} \subseteq DOMAIN st)
    THEN [raise |-> "KeyError"]
    ELSE LET parts == SplitSources(StripInsights(st.content))
         IN  IF Raised(parts)
             THEN parts
             ELSE [final_report |->
                      AssembleReport(st.introduction, parts.content,
                                     st.conclusion, parts.sources)]

---------------------------------------------------------------------------
(* graphs/research_graph.py and graphs/interview_graph.py: the graphs, run  *)
(* by the engine.  The engine runs the nodes that are due as concurrent     *)
(* tasks, each on the state as it was when they became due, and merges      *)
(* their deltas when all of them have returned; only then are the next      *)
(* nodes due.  An exception that leaves a node ends the run.                *)

\* a variant compiled without interrupt_before
InterruptBeforeNothing == {}

\* compile(interrupt_before=['human_feedback'])
InterruptBefore == {"human_feedback"}

\* the keys of ResearchGraphState; of a branch's final state the engine
\* merges these into the research state
ResearchKeys ==
    {"topic", "max_analysts", "human_analyst_feedback", "analysts", "sections",
     "introduction", "content", "conclusion", "final_report", "error", "error_history"}

WriterNodes == {"write_report", "write_introduction", "write_conclusion"}
SearchNodes == {"search_web", "search_wikipedia"}

\* a variant that lets answer_question start once either search returned
SearchesReturnedEither(done) == done # {}

\* edges search_web -> answer_question and search_wikipedia -> answer_question:
\* both searches are due together and answer_question is due after both
SearchesReturned(done) == done = SearchNodes

\* a variant that lets the writers start once any branch returned
InterviewsReturnedAny(brs) == \E i \in 1..Len(brs) : brs[i].ipc = "done"

\* edges conduct_interview -> write_report, write_introduction,
\* write_conclusion: the branches are due together and the writers after all
InterviewsReturned(brs) == \A i \in 1..Len(brs) : brs[i].ipc = "done"

\* a variant that lets finalize_report start once any writer returned
WritersReturnedAny(ws) == DOMAIN ws # {}

\* the edge from the list of the three writers to finalize_report
WritersReturned(ws) == DOMAIN ws = WriterNodes

\* a variant in which the last delta of the list is the one that counts
MergeAllLastWins(st, deltas) ==
    IF deltas = <<>> THEN st ELSE Merge(st, deltas[Len(deltas)])

\* the deltas of a list merged in the order of the list
RECURSIVE MergeAll(_, _)
MergeAll(st, deltas) ==
    IF deltas = <<>> THEN st ELSE MergeAll(Merge(st, Head(deltas)), Tail(deltas))

Restrict(d, keys) == [k \in DOMAIN d \cap keys |-> d[k]]

---------------------------------------------------------------------------
(* the environment of a run *)

\* the greatest number of analysts a run asks for
MaxAnalysts == 2

\* the greatest number of times the caller resumes a run
MaxResumes == 2

\* the greatest number of documents a retrieval returns
MaxDocs == 1

Digits == <<"1","2","3","4","5","6","7","8","9">>

TxtTopic == <<"A","I">>
TxtWhy == <<"W","h","y","?">>
TxtGoodbye == <<"O","k","."," ">> \o THANKS \o <<"!">>
TxtBody == <<"\n","B","o","d","y">>
TxtSrc1 == <<"S","r","c","1">>
TxtThings == <<"t","h","i","n","g","s">>
TxtIntro == <<"I","n","t","r","o">>
TxtEnd == <<"E","n","d">>
TxtSo == <<"S","o",".">>

\* the i-th analyst of the g-th generated panel
Analyst(g, i) == [name |-> <<Digits[g], Digits[i]>>]

AnalystsOutcomes(g, max_analysts) ==
    {Failed} \cup
    {Returned([analysts |-> [i \in 1..n |-> Analyst(g, i)]]) : n \in 0..max_analysts}

FeedbackValues ==
    {None, <<>>, <<"G","o","O","D">>, <<"m","o","r","e">>}

QuestionOutcomes == {Failed, Returned([content |-> TxtWhy]), Returned([content |-> TxtGoodbye])}

QueryOutcomes == {Failed, Returned(EmptyDict)}

AnswerOutcomes == {Failed, Returned([content |-> TxtSo])}

\* the number of questions asked in a branch: the retrieval answers the last
Round(st) ==
    Cardinality({i \in 1..Len(st.messages) :
                    st.messages[i].type = "ai" /\ st.messages[i].name = None})

WebDocs(n, round) == [i \in 1..n |-> [url |-> <<"u">>, content |-> <<Digits[round]>>]]
WikiDocs(n, round) == [i \in 1..n |-> [source |-> <<"w">>, page_content |-> <<Digits[round]>>]]

\* a provider fails or returns the documents it holds
WebOutcomes(round) == {Failed, Returned([docs |-> WebDocs(env.web, round)])}
WikiOutcomes(round) == {Failed, Returned([docs |-> WikiDocs(env.wikipedia, round)])}

SectionOutcomes(analyst) ==
    {Failed, Returned([content |-> <<"#","#"," ">> \o analyst.name])}

TxtPlainBody == <<"B","o","d","y">>

ReportOutcomes ==
    {Failed, Returned([content |-> TxtPlainBody]),
     Returned([content |-> INSIGHTS \o TxtBody \o SOURCES_DELIM \o TxtSrc1])}
IntroductionOutcomes == {Failed, Returned([content |-> TxtIntro])}
ConclusionOutcomes == {Failed, Returned([content |-> TxtEnd])}

---------------------------------------------------------------------------
(* a run of the research graph *)

Init ==
    /\ state = [topic |-> TxtTopic, max_analysts |-> MaxAnalysts, sections |-> <<>>]
    /\ \E web \in 0..MaxDocs, wikipedia \in 0..MaxDocs :
          env = [web |-> web, wikipedia |-> wikipedia]
    /\ pc = "create_analysts"
    /\ branches = <<>>
    /\ finished = <<>>
    /\ writers = EmptyDict
    /\ trace = [creates |-> 0, resumes |-> 0, finalizes |-> 0, exception |-> "none"]
    /\ heap = <<>>
    /\ now = 1
    /\ rp = [phase |-> "idle"]
    /\ rt = [phase |-> "idle"]
    /\ es = EmptyDict
    /\ elog = <<>>

idleVars == <<rp, rt, es, elog>>

\* an exception leaves a node: the run ends, the caller gets the exception
\* and no state
Crash(exception) ==
    /\ pc' = "crashed"
    /\ trace' = [trace EXCEPT !.exception = exception]
    /\ state' = EmptyDict
    /\ branches' = <<>>
    /\ finished' = <<>>
    /\ writers' = EmptyDict
    /\ UNCHANGED <<env, heap, now, idleVars>>

\* START -> create_analysts -> human_feedback, before which the run halts
create_analysts ==
    /\ pc = "create_analysts"
    /\ \E llm \in AnalystsOutcomes(trace.creates + 1, state.max_analysts) :
          LET r == CreateAnalysts(state, heap, now, llm)
          IN  /\ state' = Merge(state, r.delta)
              /\ heap' = r.heap
              /\ now' = IF llm.ok THEN now ELSE now + 1
    /\ pc' = IF "human_feedback" \in InterruptBefore THEN "interrupted" ELSE "human_feedback"
    /\ trace' = [trace EXCEPT !.creates = @ + 1]
    /\ UNCHANGED <<branches, finished, writers, env, idleVars>>

\* the caller resumes the halted run, with or without a value for
\* human_analyst_feedback
resume ==
    /\ pc = "interrupted"
    /\ trace.resumes < MaxResumes
    /\ \/ state' = state
       \/ \E feedback \in FeedbackValues :
             state' = Merge(state, [human_analyst_feedback |-> feedback])
    /\ pc' = "human_feedback"
    /\ trace' = [trace EXCEPT !.resumes = @ + 1]
    /\ UNCHANGED <<branches, finished, writers, env, heap, now, idleVars>>

NewBranch(seed) == [ipc |-> "ask_question", st |-> seed, done |-> {}, writes |-> <<>>]

\* human_feedback and the conditional edge that leaves it
human_feedback ==
    /\ pc = "human_feedback"
    /\ LET st == Merge(state, HumanFeedback(state))
           r == InitiateAllInterviews(st)
       IN  IF Raised(r)
           THEN Crash(r.raise)
           ELSE /\ state' = st
                /\ IF "goto" \in DOMAIN r
                   THEN pc' = r.goto /\ branches' = branches
                   ELSE /\ branches' = [i \in 1..Len(r.sends) |-> NewBranch(r.sends[i])]
                        /\ pc' = IF r.sends = <<>> THEN "end" ELSE "conduct_interview"
                /\ UNCHANGED <<finished, writers, trace, env, heap, now, idleVars>>

Running(b) ==
    /\ pc = "conduct_interview"
    /\ b \in 1..Len(branches)

BranchStep(b, branch) ==
    /\ branches' = [branches EXCEPT ![b] = branch]
    /\ UNCHANGED <<state, pc, finished, writers, trace, env, heap, now, idleVars>>

\* START -> ask_question, and answer_question -> ask_question
ask_question(b) ==
    /\ Running(b)
    /\ branches[b].ipc = "ask_question"
    /\ \E llm \in QuestionOutcomes :
          LET r == GenerateQuestion(branches[b].st, llm)
          IN  IF Raised(r)
              THEN Crash(r.raise)
              ELSE BranchStep(b, [branches[b] EXCEPT !.st = Merge(@, r),
                                                     !.ipc = "search",
                                                     !.done = {},
                                                     !.writes = <<>>])

\* a search returned r: its delta waits for the other search, and the deltas
\* are merged when both have returned
SearchReturned(b, node, r) ==
    LET done == branches[b].done \cup {node}
        writes == Append(branches[b].writes, r)
    IN  IF SearchesReturned(done)
        THEN BranchStep(b, [branches[b] EXCEPT !.st = MergeAll(@, writes),
                                               !.ipc = "answer_question",
                                               !.done = {},
                                               !.writes = <<>>])
        ELSE BranchStep(b, [branches[b] EXCEPT !.done = done, !.writes = writes])

search_web(b) ==
    /\ Running(b)
    /\ branches[b].ipc = "search"
    /\ "search_web" \notin branches[b].done
    /\ \E llm \in QueryOutcomes, search \in WebOutcomes(Round(branches[b].st)) :
          LET r == SearchWeb(branches[b].st, llm, search)
          IN  IF Raised(r) THEN Crash(r.raise) ELSE SearchReturned(b, "search_web", r)

search_wikipedia(b) ==
    /\ Running(b)
    /\ branches[b].ipc = "search"
    /\ "search_wikipedia" \notin branches[b].done
    /\ \E llm \in QueryOutcomes, search \in WikiOutcomes(Round(branches[b].st)) :
          LET r == SearchWikipedia(branches[b].st, llm, search)
          IN  IF Raised(r) THEN Crash(r.raise) ELSE SearchReturned(b, "search_wikipedia", r)

\* answer_question and the conditional edge that leaves it
answer_question(b) ==
    /\ Running(b)
    /\ branches[b].ipc = "answer_question"
    /\ \E llm \in AnswerOutcomes :
          LET r == GenerateAnswer(branches[b].st, llm)
              st == IF Raised(r) THEN branches[b].st ELSE Merge(branches[b].st, r)
              route == RouteMessages(st, EXPERT)
          IN  IF Raised(r) THEN Crash(r.raise)
              ELSE IF Raised(route) THEN Crash(route.raise)
              ELSE BranchStep(b, [branches[b] EXCEPT !.st = st, !.ipc = route.goto])

\* save_interview -> write_section
save_interview(b) ==
    /\ Running(b)
    /\ branches[b].ipc = "save_interview"
    /\ LET r == SaveInterview(branches[b].st)
       IN  IF Raised(r)
           THEN Crash(r.raise)
           ELSE BranchStep(b, [branches[b] EXCEPT !.st = Merge(@, r),
                                                  !.ipc = "write_section"])

\* write_section -> END: the branch returns its final state, of which the
\* keys of the research state are kept; when every branch has returned they
\* are merged and the writers are due
write_section(b) ==
    /\ Running(b)
    /\ branches[b].ipc = "write_section"
    /\ \E llm \in SectionOutcomes(branches[b].st.analyst) :
          LET r == WriteSection(branches[b].st, llm)
          IN  IF Raised(r)
              THEN Crash(r.raise)
              ELSE LET output == Restrict(Merge(branches[b].st, r), ResearchKeys)
                       brs == [branches EXCEPT ![b] =
                                  [ipc |-> "done", st |-> output, done |-> {}, writes |-> <<>>]]
                       order == Append(finished, b)
                   IN  /\ branches' = brs
                       /\ finished' = order
                       /\ IF InterviewsReturned(brs)
                          THEN /\ state' = MergeAll(state, [i \in 1..Len(order) |-> brs[order[i]].st])
                               /\ pc' = "writers"
                          ELSE UNCHANGED <<state, pc>>
                       /\ UNCHANGED <<writers, trace, env, heap, now, idleVars>>

\* a writer returned r: its delta waits for the other writers, and the deltas
\* are merged when all have returned
WriterReturned(node, r) ==
    LET ws == Update(writers, [n \in {node} |-> [delta |-> r, read |-> FormattedSections(state)]])
    IN  /\ writers' = ws
        /\ IF WritersReturned(ws)
           THEN /\ state' = Merge(Merge(Merge(state, ws["write_report"].delta),
                                        ws["write_introduction"].delta),
                                  ws["write_conclusion"].delta)
                /\ pc' = "finalize_report"
           ELSE UNCHANGED <<state, pc>>
        /\ UNCHANGED <<branches, finished, trace, env, heap, now, idleVars>>

WriterDue(node) == pc = "writers" /\ node \notin DOMAIN writers

write_report ==
    /\ WriterDue("write_report")
    /\ \E llm \in ReportOutcomes :
          LET r == WriteReport(state, llm)
          IN  IF Raised(r) THEN Crash(r.raise) ELSE WriterReturned("write_report", r)

write_introduction ==
    /\ WriterDue("write_introduction")
    /\ \E llm \in IntroductionOutcomes :
          LET r == WriteIntroduction(state, llm)
          IN  IF Raised(r) THEN Crash(r.raise) ELSE WriterReturned("write_introduction", r)

write_conclusion ==
    /\ WriterDue("write_conclusion")
    /\ \E llm \in ConclusionOutcomes :
          LET r == WriteConclusion(state, llm)
          IN  IF Raised(r) THEN Crash(r.raise) ELSE WriterReturned("write_conclusion", r)

\* finalize_report -> END
finalize_report ==
    /\ pc = "finalize_report"
    /\ LET r == FinalizeReport(state)
       IN  IF Raised(r)
           THEN Crash(r.raise)
           ELSE /\ pc' = "end"
                /\ state' = Merge(state, r)
                /\ trace' = [trace EXCEPT !.finalizes = @ + 1]
                /\ UNCHANGED <<branches, finished, writers, env, heap, now, idleVars>>

Next ==
    \/ create_analysts
    \/ resume
    \/ human_feedback
    \/ \E b \in 1..MaxAnalysts : ask_question(b)
    \/ \E b \in 1..MaxAnalysts : search_web(b)
    \/ \E b \in 1..MaxAnalysts : search_wikipedia(b)
    \/ \E b \in 1..MaxAnalysts : answer_question(b)
    \/ \E b \in 1..MaxAnalysts : save_interview(b)
    \/ \E b \in 1..MaxAnalysts : write_section(b)
    \/ write_report
    \/ write_introduction
    \/ write_conclusion
    \/ finalize_report

Spec == Init /\ [][Next]_vars

---------------------------------------------------------------------------
(* finalize_report applied to bounded inputs *)


\* the pieces a report body is put together from
ContentPieces ==
    {INSIGHTS, TxtBody, SOURCES_DELIM, TxtSrc1, SOURCES_MARK, TxtThings, <<"\n">>}

\* the greatest number of pieces in a report body
MaxPieces == 4

RECURSIVE Texts(_)
Texts(n) ==
    IF n = 0
    THEN {<<>>}
    ELSE LET shorter == Texts(n - 1)
         IN  shorter \cup {t \o p : t \in shorter, p \in ContentPieces}

ReportIdle == rp = [phase |-> "idle"]

ReportInit ==
    /\ GraphIdle
    /\ rt = [phase |-> "idle"]
    /\ es = EmptyDict /\ heap = <<>> /\ now = 1 /\ elog = <<>>
    /\ \E content \in Texts(MaxPieces), introduction \in {TxtIntro, <<>>} :
           rp = [phase |-> "input", content |-> content,
                 introduction |-> introduction, conclusion |-> TxtEnd]

\* the node runs on the state and its delta is merged (every key of the
\* delta overwrites)
finalize_report_call ==
    /\ rp.phase = "input"
    /\ UNCHANGED <<graphVars, rt, es, heap, now, elog>>
    /\ LET r == FinalizeReport(rp)
       IN  rp' = IF Raised(r)
                 THEN Update(rp, [phase |-> "raised", exception |-> r.raise])
                 ELSE Update(Update(rp, r), [phase |-> "done"])

ReportNext == finalize_report_call

SpecReport == ReportInit /\ [][ReportNext]_vars

---------------------------------------------------------------------------
(* route_messages applied to bounded inputs *)

TxtAlmost ==
    <<"t","h","a","n","k"," ","y","o","u"," ","s","o"," ","m","u","c","h"," ",
      "f","o","r"," ","y","o","u","r"," ","h","e","l","p">>

RouteContents == {TxtWhy, TxtGoodbye, TxtAlmost}

RouteMessageValues ==
    {Message(type, name, content) :
        type \in {"ai", "human"}, name \in {None, EXPERT}, content \in RouteContents}

\* the greatest number of messages in a state handed to route_messages
MaxMessages == 3

\* the greatest max_num_turns in a state handed to route_messages
MaxTurns == 3

RECURSIVE SeqsUpTo(_, _)
SeqsUpTo(S, n) ==
    IF n = 0
    THEN {<<>>}
    ELSE LET shorter == SeqsUpTo(S, n - 1)
         IN  shorter \cup {Append(q, x) : q \in shorter, x \in S}

RouteIdle == rt = [phase |-> "idle"]

RouteInit ==
    /\ GraphIdle
    /\ rp = [phase |-> "idle"]
    /\ es = EmptyDict /\ heap = <<>> /\ now = 1 /\ elog = <<>>
    /\ \E messages \in SeqsUpTo(RouteMessageValues, MaxMessages) :
          \/ rt = [phase |-> "input", messages |-> messages]
          \/ \E max_num_turns \in 0..MaxTurns :
                rt = [phase |-> "input", messages |-> messages,
                      max_num_turns |-> max_num_turns]

route_messages_call ==
    /\ rt.phase = "input"
    /\ LET r == RouteMessages(rt, EXPERT)
       IN  rt' = IF Raised(r)
                 THEN Update(rt, [phase |-> "raised", exception |-> r.raise])
                 ELSE Update(rt, [phase |-> "done", goto |-> r.goto])
    /\ UNCHANGED <<graphVars, rp, es, heap, now, elog>>

RouteNext == route_messages_call

SpecRoute == RouteInit /\ [][RouteNext]_vars

---------------------------------------------------------------------------
(* the interview graph invoked on its own, with or without max_num_turns in *)
(* its input                                                                *)

InterviewSeed ==
    [analyst |-> Analyst(1, 1), messages |-> <<OpeningMessage(TxtTopic)>>]

InterviewInit ==
    /\ state = EmptyDict
    /\ \E web \in 0..MaxDocs, wikipedia \in 0..MaxDocs :
          env = [web |-> web, wikipedia |-> wikipedia]
    /\ pc = "conduct_interview"
    /\ \/ branches = <<NewBranch(InterviewSeed)>>
       \/ \E max_num_turns \in 0..MaxTurns :
             branches = <<NewBranch(Update(InterviewSeed,
                                           [max_num_turns |-> max_num_turns]))>>
    /\ finished = <<>>
    /\ writers = EmptyDict
    /\ trace = [creates |-> 0, resumes |-> 0, finalizes |-> 0, exception |-> "none"]
    /\ heap = <<>>
    /\ now = 1
    /\ rp = [phase |-> "idle"]
    /\ rt = [phase |-> "idle"]
    /\ es = EmptyDict
    /\ elog = <<>>

InterviewNext ==
    \/ ask_question(1)
    \/ search_web(1)
    \/ search_wikipedia(1)
    \/ answer_question(1)
    \/ save_interview(1)
    \/ write_section(1)

\* the engine runs every node that is due
SpecInterview == InterviewInit /\ [][InterviewNext]_vars /\ WF_vars(InterviewNext)

---------------------------------------------------------------------------
(* Properties of the research graph, checked under Spec *)

Feedback == state.human_analyst_feedback

\* "good" in any mix of upper and lower case
IsGoodAnyCase(f) ==
    /\ Len(f) = 4
    /\ f[1] \in {"g", "G"}
    /\ f[2] \in {"o", "O"}
    /\ f[3] \in {"o", "O"}
    /\ f[4] \in {"d", "D"}

FeedbackApproves ==
    "human_analyst_feedback" \notin DOMAIN state \/ IsGoodAnyCase(Feedback)

FeedbackRejects ==
    /\ "human_analyst_feedback" \in DOMAIN state
    /\ Feedback # None
    /\ Feedback # <<>>
    /\ ~IsGoodAnyCase(Feedback)

HasAnalysts == "analysts" \in DOMAIN state /\ Len(state.analysts) >= 1

\* branch i was spawned for the i-th analyst and is about to ask
OneBranchPerAnalyst(brs, analysts) ==
    /\ Len(brs) = Len(analysts)
    /\ \A i \in 1..Len(analysts) :
          /\ brs[i].st.analyst = analysts[i]
          /\ brs[i].ipc = "ask_question"
          /\ \A j \in 1..Len(analysts) : brs[j].st.analyst = analysts[i] => j = i

\* C1: with N >= 1 analysts in the state, the routing that follows
\* human_feedback spawns exactly N interview branches, one per analyst and
\* none twice, when the feedback is absent or is "good" in any case, and
\* spawns none and goes to create_analysts when the feedback is any other
\* non-empty string.
C1_FanOutOrRegenerate ==
    [][pc = "human_feedback" /\ HasAnalysts =>
          /\ FeedbackApproves =>
                 /\ pc' = "conduct_interview"
                 /\ OneBranchPerAnalyst(branches', state.analysts)
          /\ FeedbackRejects =>
                 /\ pc' = "create_analysts"
                 /\ branches' = <<>>]_vars

\* two branches spawned on the feedback "GoOD"
C1_Witness ==
    /\ pc = "conduct_interview"
    /\ Len(branches) = 2
    /\ \A i \in 1..2 : branches[i].ipc = "ask_question"
    /\ "human_analyst_feedback" \in DOMAIN state
    /\ Feedback = <<"G","o","O","D">>

\* no branch, and back at create_analysts, on the feedback "more"
C1_WitnessRegenerate ==
    /\ pc = "create_analysts"
    /\ trace.creates = 1
    /\ HasAnalysts
    /\ "human_analyst_feedback" \in DOMAIN state
    /\ Feedback = <<"m","o","r","e">>
    /\ branches = <<>>

\* until the first resume: create_analysts ran once at most, no branch exists,
\* and the run is in create_analysts or halted after it
HaltsAfterFirstCreate ==
    trace.resumes = 0 =>
        /\ branches = <<>>
        /\ \/ pc = "create_analysts" /\ trace.creates = 0
           \/ pc = "interrupted" /\ trace.creates = 1

\* a halted run does nothing but resume, and the resume changes nothing of
\* the state but human_analyst_feedback
OnlyResumeLeavesHalt ==
    pc = "interrupted" =>
        /\ pc' = "human_feedback"
        /\ trace' = [trace EXCEPT !.resumes = @ + 1]
        /\ branches' = branches
        /\ \A k \in DOMAIN state \ {"human_analyst_feedback"} :
              k \in DOMAIN state' /\ state'[k] = state[k]

\* after the resume the run goes where initiate_all_interviews says
ResumeFollowsRouter ==
    pc = "human_feedback" =>
        LET r == InitiateAllInterviews(state)
        IN  /\ Raised(r) => pc' = "crashed"
            /\ "goto" \in DOMAIN r => pc' = r.goto /\ branches' = <<>>
            /\ "sends" \in DOMAIN r =>
                  /\ Len(branches') = Len(r.sends)
                  /\ \A i \in 1..Len(r.sends) : branches'[i].st = r.sends[i]
                  /\ pc' = IF r.sends = <<>> THEN "end" ELSE "conduct_interview"

\* C2: a run executes create_analysts once and halts before human_feedback
\* with the state accumulated so far; create_analysts does not run again and
\* no branch is spawned until the caller resumes; after the resume the next
\* step is the one initiate_all_interviews selects from the feedback.
C2_SuspendAndResume ==
    /\ []HaltsAfterFirstCreate
    /\ [][OnlyResumeLeavesHalt /\ ResumeFollowsRouter]_vars

\* the run halted after the first create_analysts, with the analysts stored
C2_Witness ==
    /\ pc = "interrupted"
    /\ trace.creates = 1
    /\ trace.resumes = 0
    /\ HasAnalysts

BranchesSpawned == branches # <<>>

\* C3: whatever the interleaving of the branches, no writer starts before
\* every spawned branch has returned, the three writers read the same merged
\* sections, finalize_report starts only after the three writers returned,
\* and it runs exactly once in a run.
C3_FanInBarriers ==
    /\ pc \in {"writers", "finalize_report", "end"} /\ BranchesSpawned =>
          /\ \A i \in 1..Len(branches) : branches[i].ipc = "done"
          /\ Len(state.sections) = Len(branches)
    /\ DOMAIN writers # {} => pc \in {"writers", "finalize_report", "end"}
    /\ \A w \in DOMAIN writers :
          writers[w].read = Join(<<"\n","\n">>, state.sections)
    /\ pc \in {"finalize_report", "end"} /\ BranchesSpawned =>
          /\ DOMAIN writers = WriterNodes
          /\ state.content = writers["write_report"].delta.content
          /\ state.introduction = writers["write_introduction"].delta.introduction
          /\ state.conclusion = writers["write_conclusion"].delta.conclusion
    /\ trace.finalizes <= 1
    /\ trace.finalizes = 1 <=> pc = "end" /\ BranchesSpawned

\* a finished run in which the second branch returned before the first
C3_Witness ==
    /\ pc = "end"
    /\ trace.finalizes = 1
    /\ finished = <<2, 1>>
    /\ "final_report" \in DOMAIN state

\* the context entry the web search, and the encyclopedia search, of round j
\* return
WebEntry(j) == FormatWebDocs(WebDocs(env.web, j))
WikiEntry(j) == FormatWikiDocs(WikiDocs(env.wikipedia, j))

Count(list, e) == Cardinality({i \in 1..Len(list) : list[i] = e})

\* C4: in every branch answer_question runs after both searches of the round
\* returned, in either order: at its k-th execution context holds exactly 2k
\* entries, one for each retrieval call made so far, none lost, overwritten
\* or twice.
C4_ContextHoldsEveryRetrieval ==
    \A b \in 1..Len(branches) :
        branches[b].ipc = "answer_question" =>
            LET st == branches[b].st
                k == NumResponses(st.messages, EXPERT) + 1
                expected == {WebEntry(j) : j \in 1..k} \cup {WikiEntry(j) : j \in 1..k}
            IN  /\ Len(st.context) = 2 * k
                /\ \A e \in expected \cup {st.context[i] : i \in 1..Len(st.context)} :
                      Count(st.context, e) =
                          Cardinality({j \in 1..k : WebEntry(j) = e})
                          + Cardinality({j \in 1..k : WikiEntry(j) = e})

\* the second answer of a branch is due, both providers returned documents,
\* and in the second round the encyclopedia search returned first
C4_Witness ==
    \E b \in 1..Len(branches) :
        /\ branches[b].ipc = "answer_question"
        /\ NumResponses(branches[b].st.messages, EXPERT) = 1
        /\ env.web = 1 /\ env.wikipedia = 1
        /\ Len(branches[b].st.context) = 4
        /\ branches[b].st.context[3] = WikiEntry(2)
        /\ branches[b].st.context[4] = WebEntry(2)

---------------------------------------------------------------------------
(* Regeneration of the analysts, checked under Spec *)

\* the analysts of the state are those of one generation, the g-th
AnalystsOfGeneration(analysts, g) ==
    /\ Len(analysts) <= MaxAnalysts
    /\ \A i \in 1..Len(analysts) : analysts[i] = Analyst(g, i)

\* before any approval there is no branch and no section, and the analysts of
\* the state are those of a single generation
NothingLeaksBeforeApproval ==
    /\ pc \in {"create_analysts", "interrupted", "human_feedback"} =>
          /\ branches = <<>>
          /\ state.sections = <<>>
    /\ pc # "crashed" /\ "analysts" \in DOMAIN state =>
          \E g \in 1..trace.creates : AnalystsOfGeneration(state.analysts, g)

\* a rejection leads to create_analysts and from there to the halt; a
\* create_analysts that returns analysts puts them in the place of those of
\* the state; an approval spawns one branch for each analyst of the state
RegenerateThenHalt ==
    /\ pc = "human_feedback" /\ FeedbackRejects =>
          pc' = "create_analysts" /\ branches' = <<>>
    /\ pc = "create_analysts" =>
          /\ pc' = "interrupted"
          /\ trace'.creates = trace.creates + 1
          /\ heap' = heap => AnalystsOfGeneration(state'.analysts, trace'.creates)
          /\ branches' = <<>>
    /\ pc = "human_feedback" /\ FeedbackApproves /\ "analysts" \in DOMAIN state =>
          /\ Len(branches') = Len(state.analysts)
          /\ \A i \in 1..Len(state.analysts) : branches'[i].st.analyst = state.analysts[i]

\* C18: after a resume with a feedback other than "good" create_analysts runs
\* again and the run halts again before human_feedback; across the rejections
\* no branch is spawned and sections stays empty, the analysts are replaced,
\* not extended, and on a later approval there are as many branches as
\* analysts in the most recently generated list.
C18_RejectionRegenerates ==
    /\ []NothingLeaksBeforeApproval
    /\ [][RegenerateThenHalt]_vars

\* branches spawned for the two analysts of the second generation, after one
\* rejection
C18_Witness ==
    /\ pc = "conduct_interview"
    /\ trace.creates = 2
    /\ trace.resumes = 2
    /\ Len(branches) = 2
    /\ \A i \in 1..2 : branches[i].st.analyst = Analyst(2, i)

---------------------------------------------------------------------------
(* Independence of the interview branches, checked under Spec *)

\* after the opening message, questions and expert answers in turn
OwnMessages(st) ==
    /\ st.messages[1] = OpeningMessage(state.topic)
    /\ \A i \in 2..Len(st.messages) :
          /\ st.messages[i].type = "ai"
          /\ st.messages[i].name = IF i % 2 = 0 THEN None ELSE EXPERT

\* the retrievals of the rounds the branch has been through, and no other
OwnContext(branch) ==
    LET rounds == IF branch.ipc = "search" THEN Round(branch.st) - 1 ELSE Round(branch.st)
        context == IF "context" \in DOMAIN branch.st THEN branch.st.context ELSE <<>>
    IN  /\ Len(context) = 2 * rounds
        /\ \A j \in 1..rounds :
              {context[2 * j - 1], context[2 * j]} = {WebEntry(j), WikiEntry(j)}

\* the section the branch of the b-th analyst writes
SectionOf(b) == <<"#","#"," ">> \o state.analysts[b].name

BranchesKeepToThemselves ==
    /\ \A b \in 1..Len(branches) :
          branches[b].ipc # "done" =>
              /\ branches[b].st.analyst = state.analysts[b]
              /\ OwnMessages(branches[b].st)
              /\ OwnContext(branches[b])
              /\ Len(branches[b].st.messages) =
                     IF branches[b].ipc \in {"search", "answer_question"}
                     THEN 2 * Round(branches[b].st)
                     ELSE 2 * Round(branches[b].st) + 1
    /\ pc = "conduct_interview" => state.sections = <<>>
    /\ pc \in {"writers", "finalize_report", "end"} /\ BranchesSpawned =>
          /\ Len(state.sections) = Len(branches)
          /\ \A b \in 1..Len(branches) : Count(state.sections, SectionOf(b)) = 1

\* a step of a branch changes that branch alone, and of the research state
\* nothing but sections
OneBranchAtATime ==
    pc = "conduct_interview" /\ pc' # "crashed" =>
        /\ Cardinality({b \in 1..Len(branches) : branches'[b] # branches[b]}) <= 1
        /\ DOMAIN state' = DOMAIN state
        /\ \A k \in DOMAIN state \ {"sections"} : state'[k] = state[k]

\* a branch starts from its analyst and the opening message
StartsFromSeed ==
    pc = "human_feedback" /\ pc' = "conduct_interview" =>
        \A b \in 1..Len(branches') :
            branches'[b].st = [analyst |-> state.analysts[b],
                               messages |-> <<OpeningMessage(state.topic)>>]

\* C19: under every interleaving each branch starts from its own seed, its
\* messages and context hold only what its own nodes produced, and all it
\* gives to the research state is one entry appended to sections: after the
\* fan-in sections has one entry for each branch, none lost.
C19_BranchesIndependent ==
    /\ []BranchesKeepToThemselves
    /\ [][OneBranchAtATime /\ StartsFromSeed]_vars

\* two branches that ran interleaved, the second returning first, and their
\* two sections
C19_Witness ==
    /\ pc = "writers"
    /\ Len(branches) = 2
    /\ finished = <<2, 1>>
    /\ state.sections = <<SectionOf(2), SectionOf(1)>>

\* two branches in different rounds of their interviews
BranchesInDifferentRounds ==
    /\ pc = "conduct_interview"
    /\ Len(branches) = 2
    /\ branches[1].ipc = "answer_question" /\ Round(branches[1].st) = 2
    /\ branches[2].ipc = "search" /\ Round(branches[2].st) = 1

---------------------------------------------------------------------------
(* Retrievals without documents, checked under Spec *)

EmptyBlock == <<>>

EmptyBlocksDue ==
    (IF env.web = 0 THEN 1 ELSE 0) + (IF env.wikipedia = 0 THEN 1 ELSE 0)

\* C20: a retrieval that returns no document does not fail: search_web and
\* search_wikipedia each append one context entry, the empty block, so
\* context still grows by one entry for each retrieval call and the
\* interview goes on to answer_question.
C20_EmptyRetrievalAppendsEmptyBlock ==
    \A b \in 1..Len(branches) :
        branches[b].ipc = "answer_question" /\ EmptyBlocksDue > 0 =>
            LET context == branches[b].st.context
                k == Round(branches[b].st)
            IN  /\ Len(context) = 2 * k
                /\ \A j \in 1..k :
                      Cardinality({i \in {2 * j - 1, 2 * j} : context[i] = EmptyBlock})
                          = EmptyBlocksDue

\* answer_question is due after two retrievals without documents
C20_Witness ==
    /\ env.web = 0 /\ env.wikipedia = 0
    /\ \E b \in 1..Len(branches) :
          /\ branches[b].ipc = "answer_question"
          /\ branches[b].st.context = <<EmptyBlock, EmptyBlock>>

\* the second answer is due after a web search that found nothing in either
\* round
EmptyWebSearchTwice ==
    /\ env.web = 0 /\ env.wikipedia = 1
    /\ \E b \in 1..Len(branches) :
          /\ branches[b].ipc = "answer_question"
          /\ Len(branches[b].st.context) = 4
          /\ branches[b].st.context[1] = EmptyBlock

---------------------------------------------------------------------------
(* The routers inside a run, checked under Spec *)

\* the state has topic and analysts, and the feedback is absent, None or a
\* string
RouterInputComplete ==
    /\ pc = "human_feedback"
    /\ {"topic", "analysts"} \subseteq DOMAIN state

\* C21: initiate_all_interviews returns a routing decision without raising
\* whenever topic and analysts are present and human_analyst_feedback is a
\* missing key, None or any string; a None feedback is treated like an
\* absent one and spawns the interviews.
C21_RouterToleratesNullFeedback ==
    [][RouterInputComplete =>
          /\ pc' # "crashed"
          /\ "human_analyst_feedback" \in DOMAIN state /\ Feedback = None =>
                /\ Len(branches') = Len(state.analysts)
                /\ pc' \in {"conduct_interview", "end"}]_vars

\* with a feedback that is absent or a string the router does not raise
RouterToleratesStrings ==
    [][RouterInputComplete
          /\ ("human_analyst_feedback" \in DOMAIN state => Feedback # None)
          => pc' # "crashed"]_vars

\* the router was reached with an empty string as the feedback
RouterGotEmptyString ==
    /\ RouterInputComplete
    /\ "human_analyst_feedback" \in DOMAIN state
    /\ Feedback = <<>>

\* the step is answer_question of branch b, followed by route_messages
Routed(b) ==
    /\ pc = "conduct_interview"
    /\ b \in 1..Len(branches)
    /\ branches[b].ipc = "answer_question"
    /\ b \in 1..Len(branches')
    /\ branches'[b].ipc \in {"ask_question", "save_interview"}

\* the opening human message, then questions and expert answers in turn, the
\* last an answer
QuestionsAndAnswers(messages) ==
    /\ Len(messages) >= 3
    /\ Len(messages) % 2 = 1
    /\ messages[1].type = "human"
    /\ \A i \in 2..Len(messages) :
          /\ messages[i].type = "ai"
          /\ i % 2 = 0 => messages[i].name # EXPERT
          /\ i % 2 = 1 => messages[i].name = EXPERT

\* C22: whenever route_messages is evaluated in a run of the interview
\* graph, the messages of the branch are the opening human message followed
\* by questions and expert answers in strict alternation: the length is odd
\* and at least 3, the last message is the latest answer and the one before
\* it the latest question, so messages[-2] is always in range.
C22_RouterSeesQuestionThenAnswer ==
    [][/\ \A b \in 1..MaxAnalysts :
             Routed(b) => QuestionsAndAnswers(branches'[b].st.messages)
       /\ pc = "conduct_interview" /\ pc' = "crashed" =>
             trace'.exception # "IndexError"]_vars

\* route_messages sent a branch back to ask_question after its first answer
C22_Witness ==
    \E b \in 1..Len(branches) :
        /\ branches[b].ipc = "ask_question"
        /\ Len(branches[b].st.messages) = 3
        /\ branches[b].st.messages[3].name = EXPERT
        /\ branches[b].st.messages[2].content = TxtWhy

\* route_messages ended an interview after the second answer
RoutedAfterSecondAnswer ==
    \E b \in 1..Len(branches) :
        /\ branches[b].ipc = "save_interview"
        /\ Len(branches[b].st.messages) = 5

---------------------------------------------------------------------------
(* Failures of the collaborators in a run, checked under Spec *)

\* the step is a create_analysts that recorded an error
CreateAnalystsFailed ==
    /\ pc = "create_analysts"
    /\ Len(heap') = Len(heap) + 1

\* the failure is returned as an error delta, without analysts, and the run
\* halts before human_feedback
FailureReturnedAsDelta ==
    CreateAnalystsFailed =>
        /\ pc' = "interrupted"
        /\ {"error", "error_history"} \subseteq DOMAIN state'
        /\ state'.error = Ref(Len(heap'))
        /\ state'.error_history[Len(state'.error_history)] = state'.error
        /\ Deref(heap', state'.error).node = "create_analysts"
        /\ ("analysts" \in DOMAIN state') = ("analysts" \in DOMAIN state)
        /\ "analysts" \in DOMAIN state => state'.analysts = state.analysts

\* the state holds an error and the caller resumed with a feedback that is
\* absent or a string
ResumedWithError ==
    /\ pc = "human_feedback"
    /\ IsErrorState(state)
    /\ "human_analyst_feedback" \in DOMAIN state => Feedback # None

\* C13: a failure of the model call inside create_analysts never aborts the
\* run: the node returns a delta with error and error_history and without
\* analysts, the run goes on to the halt before human_feedback, and the steps
\* after the resume do not raise.
C13_CreateAnalystsFailureContained ==
    [][/\ FailureReturnedAsDelta
       /\ ResumedWithError => pc' # "crashed"]_vars

\* the part of C13 about create_analysts itself
CreateAnalystsReturnsErrorDelta == [][FailureReturnedAsDelta]_vars

\* a run halted with the error of a failed create_analysts in its state
CreateAnalystsFailureHalted ==
    /\ pc = "interrupted"
    /\ IsErrorState(state)
    /\ "analysts" \notin DOMAIN state

\* every branch is in the question, search and answer loop, or has returned
BranchesInLoop ==
    /\ pc = "conduct_interview"
    /\ \A b \in 1..Len(branches) :
          branches[b].ipc \in {"ask_question", "search", "answer_question", "done"}

\* C14: a failure of a collaborator inside one interview branch (the model
\* call of generate_question or generate_answer, or a retrieval call) does
\* not abort the run.
C14_BranchFailureContained ==
    [][BranchesInLoop => pc' # "crashed"]_vars

---------------------------------------------------------------------------
(* Properties of an interview, checked under SpecInterview *)

\* max(1, max_num_turns), with 2 for a state without max_num_turns
RoundLimit(st) ==
    LET max_num_turns ==
            IF "max_num_turns" \in DOMAIN st THEN st.max_num_turns ELSE 2
    IN  IF max_num_turns < 1 THEN 1 ELSE max_num_turns

InLoop(branch) == branch.ipc \in {"ask_question", "search", "answer_question"}

\* the questions asked and the answers given stay within the limit
RoundsWithinLimit ==
    \A b \in 1..Len(branches) :
        InLoop(branches[b]) \/ branches[b].ipc \in {"save_interview", "write_section"} =>
            /\ NumResponses(branches[b].st.messages, EXPERT) <= RoundLimit(branches[b].st)
            /\ Round(branches[b].st) <= RoundLimit(branches[b].st)

\* the loop is left for save_interview, which is followed by write_section
\* and the end of the branch
LeavesLoopForSave ==
    \A b \in 1..Len(branches) :
        b \in 1..Len(branches') =>
            /\ InLoop(branches[b]) /\ ~InLoop(branches'[b])
                  => branches'[b].ipc = "save_interview"
            /\ branches[b].ipc = "save_interview" /\ branches'[b] # branches[b]
                  => branches'[b].ipc = "write_section"
            /\ branches[b].ipc = "write_section" /\ branches'[b] # branches[b]
                  => branches'[b].ipc = "done"

InterviewEnded ==
    \/ pc = "crashed"
    \/ branches # <<>> /\ \A b \in 1..Len(branches) : branches[b].ipc = "done"

InterviewReturned ==
    /\ pc = "writers"
    /\ branches[1].ipc = "done"
    /\ Len(state.sections) = 1
    /\ trace.exception = "none"

---------------------------------------------------------------------------
(* Properties of finalize_report, checked under SpecReport *)

\* splitting s on the delimiter gives exactly two parts: the delimiter occurs,
\* and no occurrence starts after the end of the first one
ExactlyTwoParts(s) ==
    LET occ == Occurrences(s, SOURCES_DELIM)
    IN  /\ occ # {}
        /\ \A j \in occ : j < Min(occ) + Len(SOURCES_DELIM)

BodyOf(s) == SubSeq(s, 1, Min(Occurrences(s, SOURCES_DELIM)) - 1)

SourcesOf(s) ==
    SubSeq(s, Min(Occurrences(s, SOURCES_DELIM)) + Len(SOURCES_DELIM), Len(s))

\* the report the rules give for a body text c from which the marker has
\* been taken already
ReportFor(c) ==
    IF Contains(c, SOURCES_MARK) /\ ExactlyTwoParts(c)
    THEN rp.introduction \o RULE \o BodyOf(c) \o RULE \o rp.conclusion
             \o SOURCES_HEAD \o SourcesOf(c)
    ELSE rp.introduction \o RULE \o c \o RULE \o rp.conclusion

ReportFinished == rp.phase \in {"done", "raised"}

\* C7: final_report is introduction, body and conclusion joined by the rule,
\* followed by the sources section exactly when a sources block was
\* extracted, body and sources being the two parts, around the single
\* delimiter, of content without its leading "## Insights" marker.
C7_ReportIsExactConcatenation ==
    ReportFinished =>
        /\ rp.phase = "done"
        /\ rp.final_report = ReportFor(RemoveInsightsPrefix(rp.content))

\* The same statement about the text that finalize_report itself is left with
\* after its marker step (lines 72-73): the split and the concatenation
\* follow the rules on every input.
ReportFollowsRulesAfterMarkerStep ==
    ReportFinished =>
        /\ rp.phase = "done"
        /\ rp.final_report = ReportFor(StripInsights(rp.content))

\* the example of C7
C7_Example ==
    /\ rp.content = INSIGHTS \o TxtBody \o SOURCES_DELIM \o TxtSrc1
    /\ rp.introduction = TxtIntro
    /\ rp.phase = "done"
    => rp.final_report =
           <<"I","n","t","r","o","\n","\n","-","-","-","\n","\n","\n","B","o","d","y",
             "\n","\n","-","-","-","\n","\n","E","n","d","\n","\n","#","#"," ",
             "S","o","u","r","c","e","s","\n","S","r","c","1">>

\* C8: when content starts with "## Insights" exactly that prefix is removed
\* and every other character of content is kept, and content that does not
\* start with the marker is left as it is: the report is the one made from
\* content without the prefix.
C8_OnlyLeadingMarkerRemoved ==
    rp.phase = "done" =>
        rp.final_report =
            LET parts == SplitSources(RemoveInsightsPrefix(rp.content))
            IN  AssembleReport(rp.introduction, parts.content,
                               rp.conclusion, parts.sources)

\* C9: when content contains "## Sources" but the split on "\n## Sources\n"
\* does not give exactly two parts, finalize_report does not raise, the whole
\* of content (less its leading marker) is the body, and no sources section
\* is appended.
C9_MalformedSourcesTolerated ==
    LET c == RemoveInsightsPrefix(rp.content)
    IN  ReportFinished /\ Contains(rp.content, SOURCES_MARK) /\ ~ExactlyTwoParts(c) =>
            /\ rp.phase = "done"
            /\ rp.final_report = rp.introduction \o RULE \o c \o RULE \o rp.conclusion

\* The same statement about the text that finalize_report itself is left with
\* after its marker step (lines 72-73): no call raises, and a text that does
\* not split in two is the body, with no sources section.
MalformedSourcesToleratedAfterMarkerStep ==
    LET c == StripInsights(rp.content)
    IN  ReportFinished /\ Contains(rp.content, SOURCES_MARK) /\ ~ExactlyTwoParts(c) =>
            /\ rp.phase = "done"
            /\ rp.final_report = rp.introduction \o RULE \o c \o RULE \o rp.conclusion

\* a finished call on a text with more than one delimiter
MalformedTwoDelimiters ==
    LET c == StripInsights(rp.content)
    IN  /\ rp.phase = "done"
        /\ Contains(c, SOURCES_MARK)
        /\ ~ExactlyTwoParts(c)
        /\ Cardinality(Occurrences(c, SOURCES_DELIM)) >= 2

\* a finished call on a text with the marker word and no delimiter
MalformedNoDelimiter ==
    LET c == StripInsights(rp.content)
    IN  /\ rp.phase = "done"
        /\ Contains(c, SOURCES_MARK)
        /\ Occurrences(c, SOURCES_DELIM) = {}

---------------------------------------------------------------------------
(* Properties of route_messages, checked under SpecRoute *)

RouteFinished == rt.phase \in {"done", "raised"}

\* the messages an expert wrote: AI messages named "expert"
ExpertAuthored == {i \in 1..Len(rt.messages) :
                      rt.messages[i].type = "ai" /\ rt.messages[i].name = EXPERT}

TurnLimit ==
    IF "max_num_turns" \in DOMAIN rt THEN rt.max_num_turns ELSE DefaultMaxNumTurns

SecondToLastThanks ==
    LET text == rt.messages[Len(rt.messages) - 1].content
    IN  \E i \in 1..Len(text) :
            /\ i + Len(THANKS) - 1 <= Len(text)
            /\ \A j \in 1..Len(THANKS) : text[i + j - 1] = THANKS[j]

C6_ShortHistoryContinues ==
    RouteFinished /\ Len(rt.messages) < 2 /\ Cardinality(ExpertAuthored) < TurnLimit =>
        rt.phase = "done" /\ rt.goto = "ask_question"

\* What the code does there: it raises IndexError.
ShortHistoryRaises ==
    RouteFinished /\ Len(rt.messages) < 2 /\ Cardinality(ExpertAuthored) < TurnLimit =>
        rt.phase = "raised" /\ rt.exception = "IndexError"

---------------------------------------------------------------------------
(* Properties of the error envelope, checked under SpecError *)

\* the last call is a record_recovery that directly follows a record_error
\* made with add_to_history (its default)
RecoveryFollowsError ==
    /\ Len(elog) >= 2
    /\ elog[Len(elog)].op = "record_recovery"
    /\ elog[Len(elog) - 1].op = "record_error"
    /\ elog[Len(elog) - 1].add_to_history

RecordedError == elog[Len(elog) - 1].delta.error

LastHistoryEntry == Deref(heap, es.error_history[Len(es.error_history)])

\* C10: once the delta of record_error is merged, merging the delta of
\* record_recovery(success=True) sets error to None and leaves the last entry
\* of error_history with recovered = True; with success=False error still
\* holds the recorded error and the last entry has recovered = False.
C10_RecoveryAfterError ==
    RecoveryFollowsError =>
        /\ es.error_history # <<>>
        /\ es.error_history[Len(es.error_history)] = RecordedError
        /\ IF elog[Len(elog)].success
           THEN es.error = None /\ LastHistoryEntry.recovered = TRUE
           ELSE /\ es.error = RecordedError
                /\ Deref(heap, es.error).message = "bad"
                /\ LastHistoryEntry.recovered = FALSE

\* a successful recovery recorded right after an error
C10_Witness ==
    /\ RecoveryFollowsError
    /\ elog[Len(elog)].success
    /\ es.error = None
    /\ LastHistoryEntry.recovered = TRUE

\* a failed recovery recorded right after an error
C10_WitnessFailed ==
    /\ RecoveryFollowsError
    /\ ~elog[Len(elog)].success
    /\ es.error # None
    /\ LastHistoryEntry.recovered = FALSE

\* the ErrorInfo dicts the state refers to, under error and in error_history
StateRefs(st) ==
    (IF "error" \in DOMAIN st /\ st.error # None THEN {st.error} ELSE {})
    \cup (IF "error_history" \in DOMAIN st
          THEN {st.error_history[i] : i \in 1..Len(st.error_history)}
          ELSE {})

\* the step is a call of `op`, logged as the last entry of elog
CallOf(op) ==
    /\ Len(elog') = Len(elog) + 1
    /\ elog'[Len(elog')].op = op

LastCall == elog'[Len(elog')]

\* C11: no function of the error envelope changes the state passed to it:
\* after a call every ErrorInfo the input state holds, under error and in
\* error_history, has the value it had before the call.
C11_InputStateUnchanged ==
    [][\A ref \in StateRefs(es) : Deref(heap', ref) = Deref(heap, ref)]_vars

\* record_error and the two inspections leave every ErrorInfo as it was
OnlyRecoveryMarksEntries ==
    [][CallOf("record_error") \/ CallOf("is_error_state") \/ CallOf("get_error_severity")
          => \A ref \in StateRefs(es) : Deref(heap', ref) = Deref(heap, ref)]_vars

History(st) == IF "error_history" \in DOMAIN st THEN st.error_history ELSE <<>>

NoDuplicates(list) ==
    \A i, j \in 1..Len(list) : list[i] = list[j] => i = j

\* C12: error_history is append-only: a record_error with add_to_history,
\* once merged, extends it by exactly one ErrorInfo at the end, and no call
\* of record_error, clear_error or record_recovery removes, reorders or
\* duplicates an earlier entry.
C12_HistoryAppendOnly ==
    [][/\ Len(History(es')) >= Len(History(es))
       /\ SubSeq(History(es'), 1, Len(History(es))) = History(es)
       /\ NoDuplicates(History(es'))
       /\ CallOf("record_error") /\ LastCall.add_to_history
             => Len(History(es')) = Len(History(es)) + 1]_vars

\* what holds of the history: no call removes or reorders an entry, and the
\* first record_error into an empty history adds exactly one
HistoryKeepsEarlierEntries ==
    [][/\ Len(History(es')) >= Len(History(es))
       /\ SubSeq(History(es'), 1, Len(History(es))) = History(es)
       /\ CallOf("record_error") /\ LastCall.add_to_history /\ History(es) = <<>>
             => Len(History(es')) = 1]_vars

\* the delta of clear_error: the history alone, its last entry marked, when
\* mark_recovered is true and the history is not empty; nothing otherwise
ClearErrorDelta ==
    IF LastCall.mark_recovered /\ History(es) # <<>>
    THEN /\ DOMAIN LastCall.delta = {"error_history"}
         /\ LastCall.delta.error_history = es.error_history
         /\ LET last == Deref(heap', es.error_history[Len(es.error_history)])
            IN  /\ last.recovery_attempted = TRUE
                /\ last.recovered = TRUE
                /\ last.recovery_timestamp = now
    ELSE LastCall.delta = EmptyDict

\* the value under error, as a caller reads it
ErrorValue(st, h) ==
    IF "error" \notin DOMAIN st THEN <<"absent">>
    ELSE IF st.error = None THEN None
    ELSE <<"dict", Deref(h, st.error)>>

\* C15: clear_error returns only error_history, with its last entry marked,
\* when mark_recovered is true and the history is not empty, and an empty
\* delta otherwise; the delta never holds the key error, so the value of
\* error in the state is the same after the merge as before the call.
C15_ClearErrorLeavesError ==
    [][CallOf("clear_error") =>
          /\ ClearErrorDelta
          /\ "error" \notin DOMAIN LastCall.delta
          /\ ErrorValue(es', heap') = ErrorValue(es, heap)]_vars

\* the part of C15 about the delta, and the key error still referring to the
\* dict it referred to
ClearErrorDeltaShape ==
    [][CallOf("clear_error") =>
          /\ ClearErrorDelta
          /\ "error" \notin DOMAIN LastCall.delta
          /\ ("error" \in DOMAIN es') = ("error" \in DOMAIN es)
          /\ "error" \in DOMAIN es => es'.error = es.error]_vars

\* the calls of record_error logged so far
RecordErrorCalls == {i \in 1..Len(elog) : elog[i].op = "record_error"}

MostRecentError == CHOOSE i \in RecordErrorCalls : \A j \in RecordErrorCalls : j <= i

\* the most recent record_error has not been followed by a successful
\* record_recovery
Unresolved ==
    /\ RecordErrorCalls # {}
    /\ \A j \in (MostRecentError + 1)..Len(elog) :
          ~(elog[j].op = "record_recovery" /\ elog[j].success)

ExpectedSeverity ==
    IF Unresolved
    THEN Deref(heap, elog[MostRecentError].delta.error).severity
    ELSE None

C16_WitnessRecovered ==
    /\ Len(elog) = 3
    /\ elog[1].op = "record_error"
    /\ elog[2].op = "record_recovery" /\ elog[2].success
    /\ elog[3].op = "is_error_state"
    /\ elog[3].result = FALSE

====
